---- MODULE Spec2Model ----
(***************************************************************************)
(* Model of src/todo_scheduler.py: the TodoWithScheduler store (task list  *)
(* plus schedule dict), its operations, the persisted file and the menu    *)
(* loop of main().                                                         *)
(*                                                                         *)
(* Python values are represented as follows.                               *)
(*   str used as a time      a sequence of one-character strings           *)
(*   list                    a sequence                                    *)
(*   dict self.schedule      a sequence of [time, ids] entries in the      *)
(*                           dict's insertion order (Python dicts iterate  *)
(*                           in insertion order)                           *)
(*   task dict               a record with the five keys of lines 15-21    *)
(*   JSON text               a scalar is its literal, a sequence of        *)
(*                           strings: the digits of a number, true or      *)
(*                           false, a string between two quote marks; an   *)
(*                           array is a sequence, the task object a record *)
(*                           of literals, the schedule object a sequence   *)
(*                           of [time, ids] members in document order      *)
(*   printed schedule        shown: one [time, lines] entry per slot       *)
(*                           header printed, lines being the task lines    *)
(*                           printed under it                              *)
(***************************************************************************)
EXTENDS Integers, Sequences, FiniteSets, TLC

VARIABLES tasks, schedule, file, fault, call, pre, added, ncalls, shown

vars == <<tasks, schedule, file, fault, call, pre, added, ncalls, shown>>

(***************************************************************************)
(* Bounds and input sets                                                   *)
(***************************************************************************)
\* number of operations invoked on one store
MaxCalls == 4
\* task ids offered to the operations that take an id: 1..MaxId
MaxId == 2

TaskIdInputs == 1..MaxId

\* the value of an omitted scheduled_time argument (line 12)
None == <<"None">>

T0905 == <<"0", "9", ":", "0", "5">>
T95 == <<"9", ":", "5">>
T2359 == <<"2", "3", ":", "5", "9">>
T2400 == <<"2", "4", ":", "0", "0">>
T0960 == <<"0", "9", ":", "6", "0">>
TDash == <<"0", "9", "-", "0", "5">>
TAlpha == <<"a", "b", ":", "c", "d">>

ValidTimeInputs == {T0905, T95, T2359}
BadTimeInputs == {T2400, T0960, TDash, TAlpha}
TimeInputs == ValidTimeInputs \cup BadTimeInputs
\* values offered for the time_str argument of schedule_task calls
ScheduleTimeInputs == {T95, T2359, T2400}
\* values offered for the optional scheduled_time argument of add_task
ScheduledTimeInputs == {None, T95, T0960}

DescriptionInputs == {"milk"}
PriorityInputs == {"high", "urgent"}
NowInputs == {"2026-01-01 09:00"}

(***************************************************************************)
(* datetime.strptime(time_str, "%H:%M").time().strftime("%H:%M")           *)
(***************************************************************************)
Digits == <<"0", "1", "2", "3", "4", "5", "6", "7", "8", "9">>

IsDigit(c) == \E i \in 1..10 : Digits[i] = c

DigitVal(c) == (CHOOSE i \in 1..10 : Digits[i] = c) - 1

\* MatchesH with the hour range off by one: 2[0-4]
MatchesH_mut(s) ==
    \/ Len(s) = 2 /\ s[1] = "2" /\ s[2] \in {"0", "1", "2", "3", "4"}
    \/ Len(s) = 2 /\ s[1] \in {"0", "1"} /\ IsDigit(s[2])
    \/ Len(s) = 1 /\ IsDigit(s[1])

\* the strings the directive %H matches: 2[0-3] | [0-1]\d | \d
MatchesH(s) ==
    \/ Len(s) = 2 /\ s[1] = "2" /\ s[2] \in {"0", "1", "2", "3"}
    \/ Len(s) = 2 /\ s[1] \in {"0", "1"} /\ IsDigit(s[2])
    \/ Len(s) = 1 /\ IsDigit(s[1])

\* the strings the directive %M matches: [0-5]\d | \d
MatchesM(s) ==
    \/ Len(s) = 2 /\ s[1] \in {"0", "1", "2", "3", "4", "5"} /\ IsDigit(s[2])
    \/ Len(s) = 1 /\ IsDigit(s[1])

NumVal(s) == IF Len(s) = 2 THEN 10 * DigitVal(s[1]) + DigitVal(s[2])
             ELSE DigitVal(s[1])

\* positions at which time_str splits as <hour> ":" <minute> with nothing
\* left over ("unconverted data remains" otherwise)
Splits(time_str) ==
    {k \in 2..(Len(time_str) - 1) :
        /\ time_str[k] = ":"
        /\ MatchesH(SubSeq(time_str, 1, k - 1))
        /\ MatchesM(SubSeq(time_str, k + 1, Len(time_str)))}

\* strptime does not raise ValueError
strptime_ok(time_str) == Splits(time_str) # {}

\* the parsed hour and minute
strptime(time_str) ==
    LET k == CHOOSE j \in Splits(time_str) : TRUE
    IN  [hour |-> NumVal(SubSeq(time_str, 1, k - 1)),
         minute |-> NumVal(SubSeq(time_str, k + 1, Len(time_str)))]

\* strftime without the zero padding of values below ten
strftime_mut(t) ==
    (IF t.hour < 10 THEN <<Digits[t.hour + 1]>>
     ELSE <<Digits[(t.hour \div 10) + 1], Digits[(t.hour % 10) + 1]>>)
    \o <<":">> \o
    (IF t.minute < 10 THEN <<Digits[t.minute + 1]>>
     ELSE <<Digits[(t.minute \div 10) + 1], Digits[(t.minute % 10) + 1]>>)

\* zero-padded two-digit rendering of both fields
strftime(t) ==
    <<Digits[(t.hour \div 10) + 1], Digits[(t.hour % 10) + 1], ":",
      Digits[(t.minute \div 10) + 1], Digits[(t.minute % 10) + 1]>>

(***************************************************************************)
(* list and dict primitives                                                *)
(***************************************************************************)
\* x in lst
Contains(lst, x) == \E i \in 1..Len(lst) : lst[i] = x

\* lst.pop(i) with the 1-based position i
ListPop(lst, i) == SubSeq(lst, 1, i - 1) \o SubSeq(lst, i + 1, Len(lst))

\* lst.remove(x): deletes the first occurrence of x
ListRemove(lst, x) ==
    ListPop(lst, CHOOSE i \in 1..Len(lst) :
                    lst[i] = x /\ \A j \in 1..(i - 1) : lst[j] # x)

\* list(d.keys())
Keys(d) == [i \in 1..Len(d) |-> d[i].time]

\* key in d
HasKey(d, k) == \E i \in 1..Len(d) : d[i].time = k

KeyPos(d, k) == CHOOSE i \in 1..Len(d) : d[i].time = k

\* d[k]
Get(d, k) == d[KeyPos(d, k)].ids

\* d[k] = v: a new key goes last, an existing key keeps its position
Put(d, k, v) ==
    IF HasKey(d, k)
    THEN [d EXCEPT ![KeyPos(d, k)] = [time |-> k, ids |-> v]]
    ELSE Append(d, [time |-> k, ids |-> v])

\* del d[k]
Del(d, k) == ListPop(d, KeyPos(d, k))

(***************************************************************************)
(* TodoWithScheduler operations.  Each operator takes the fields it reads  *)
(* and returns the fields it writes together with the returned value.      *)
(***************************************************************************)
\* schedule_task without the membership test of line 69
schedule_task_mut(tasks_, schedule_, task_id, time_str) ==
    IF ~strptime_ok(time_str)
    THEN [schedule |-> schedule_, ret |-> FALSE]
    ELSE LET task_time == strftime(strptime(time_str))
             created == IF HasKey(schedule_, task_time)
                        THEN schedule_
                        ELSE Put(schedule_, task_time, <<>>)
             ids == Get(created, task_time)
         IN  [schedule |-> Put(created, task_time, Append(ids, task_id)),
              ret |-> TRUE]

\* lines 60-83: the try body raises ValueError at line 62 before any write
schedule_task(tasks_, schedule_, task_id, time_str) ==
    IF ~strptime_ok(time_str)
    THEN [schedule |-> schedule_, ret |-> FALSE]
    ELSE LET task_time == strftime(strptime(time_str))
             created == IF HasKey(schedule_, task_time)
                        THEN schedule_
                        ELSE Put(schedule_, task_time, <<>>)
             ids == Get(created, task_time)
         IN  [schedule |-> IF Contains(ids, task_id)
                           THEN created
                           ELSE Put(created, task_time, Append(ids, task_id)),
              ret |-> TRUE]

\* add_task that takes the new task back when schedule_task fails
add_task_mut(tasks_, schedule_, task, priority, scheduled_time, now) ==
    LET task_id == Len(tasks_) + 1
        new_task == [id |-> task_id, task |-> task, priority |-> priority,
                     completed |-> FALSE, created_at |-> now]
        appended == Append(tasks_, new_task)
        timed == scheduled_time # None /\ scheduled_time # <<>>
        r == schedule_task(appended, schedule_, task_id, scheduled_time)
    IN  [tasks |-> IF timed /\ ~r.ret THEN tasks_ ELSE appended,
         schedule |-> IF timed THEN r.schedule ELSE schedule_,
         ret |-> task_id]

\* lines 14-29
add_task(tasks_, schedule_, task, priority, scheduled_time, now) ==
    LET task_id == Len(tasks_) + 1
        new_task == [id |-> task_id, task |-> task, priority |-> priority,
                     completed |-> FALSE, created_at |-> now]
        appended == Append(tasks_, new_task)
    IN  [tasks |-> appended,
         schedule |-> IF scheduled_time # None /\ scheduled_time # <<>>
                      THEN schedule_task(appended, schedule_, task_id,
                                         scheduled_time).schedule
                      ELSE schedule_,
         ret |-> task_id]

\* lines 39-43: the loop over list(self.schedule.keys())
RECURSIVE RemoveFromSchedule(_, _, _)
RemoveFromSchedule(schedule_, keys, task_id) ==
    IF keys = <<>> THEN schedule_
    ELSE LET time_slot == Head(keys)
             ids == Get(schedule_, time_slot)
             removed == ListRemove(ids, task_id)
         IN  IF Contains(ids, task_id)
             THEN RemoveFromSchedule(
                      IF removed = <<>> THEN Del(schedule_, time_slot)
                      ELSE Put(schedule_, time_slot, removed),
                      Tail(keys), task_id)
             ELSE RemoveFromSchedule(schedule_, Tail(keys), task_id)

\* remove_task without the loop of lines 39-43
remove_task_mut(tasks_, schedule_, task_id) ==
    IF \E i \in 1..Len(tasks_) : tasks_[i].id = task_id
    THEN LET i == CHOOSE j \in 1..Len(tasks_) :
                      /\ tasks_[j].id = task_id
                      /\ \A h \in 1..(j - 1) : tasks_[h].id # task_id
         IN  [tasks |-> ListPop(tasks_, i), schedule |-> schedule_,
              ret |-> TRUE]
    ELSE [tasks |-> tasks_, schedule |-> schedule_, ret |-> FALSE]

\* remove_task that runs the loop of lines 39-43 whether or not a task matched
remove_task_eager_mut(tasks_, schedule_, task_id) ==
    IF \E i \in 1..Len(tasks_) : tasks_[i].id = task_id
    THEN LET i == CHOOSE j \in 1..Len(tasks_) :
                      /\ tasks_[j].id = task_id
                      /\ \A h \in 1..(j - 1) : tasks_[h].id # task_id
         IN  [tasks |-> ListPop(tasks_, i),
              schedule |-> RemoveFromSchedule(schedule_, Keys(schedule_),
                                              task_id),
              ret |-> TRUE]
    ELSE [tasks |-> tasks_,
          schedule |-> RemoveFromSchedule(schedule_, Keys(schedule_),
                                          task_id),
          ret |-> FALSE]

\* lines 33-46
remove_task(tasks_, schedule_, task_id) ==
    IF \E i \in 1..Len(tasks_) : tasks_[i].id = task_id
    THEN LET i == CHOOSE j \in 1..Len(tasks_) :
                      /\ tasks_[j].id = task_id
                      /\ \A h \in 1..(j - 1) : tasks_[h].id # task_id
         IN  [tasks |-> ListPop(tasks_, i),
              schedule |-> RemoveFromSchedule(schedule_, Keys(schedule_),
                                              task_id),
              ret |-> TRUE]
    ELSE [tasks |-> tasks_, schedule |-> schedule_, ret |-> FALSE]

\* mark_complete that flips the flag instead of setting it
mark_complete_mut(tasks_, task_id) ==
    IF \E i \in 1..Len(tasks_) : tasks_[i].id = task_id
    THEN LET i == CHOOSE j \in 1..Len(tasks_) :
                      /\ tasks_[j].id = task_id
                      /\ \A h \in 1..(j - 1) : tasks_[h].id # task_id
         IN  [tasks |-> [tasks_ EXCEPT
                            ![i].completed = ~tasks_[i].completed],
              ret |-> TRUE]
    ELSE [tasks |-> tasks_, ret |-> FALSE]

\* lines 50-56
mark_complete(tasks_, task_id) ==
    IF \E i \in 1..Len(tasks_) : tasks_[i].id = task_id
    THEN LET i == CHOOSE j \in 1..Len(tasks_) :
                      /\ tasks_[j].id = task_id
                      /\ \A h \in 1..(j - 1) : tasks_[h].id # task_id
         IN  [tasks |-> [tasks_ EXCEPT ![i].completed = TRUE], ret |-> TRUE]
    ELSE [tasks |-> tasks_, ret |-> FALSE]

\* lines 87-93: the loop over list(self.schedule.keys()) and task_found
RECURSIVE UnscheduleLoop(_, _, _)
UnscheduleLoop(schedule_, keys, task_id) ==
    IF keys = <<>> THEN schedule_
    ELSE LET time_slot == Head(keys)
             ids == Get(schedule_, time_slot)
             removed == ListRemove(ids, task_id)
         IN  IF Contains(ids, task_id)
             THEN UnscheduleLoop(
                      IF removed = <<>> THEN Del(schedule_, time_slot)
                      ELSE Put(schedule_, time_slot, removed),
                      Tail(keys), task_id)
             ELSE UnscheduleLoop(schedule_, Tail(keys), task_id)

\* unschedule_task without the deletion of lines 91-92
unschedule_task_mut(schedule_, task_id) ==
    [schedule |-> [i \in 1..Len(schedule_) |->
                      [time |-> schedule_[i].time,
                       ids |-> IF Contains(schedule_[i].ids, task_id)
                               THEN ListRemove(schedule_[i].ids, task_id)
                               ELSE schedule_[i].ids]],
     ret |-> \E i \in 1..Len(schedule_) : Contains(schedule_[i].ids, task_id)]

\* unschedule_task that leaves the loop after the first slot that lists the id
unschedule_task_first_mut(schedule_, task_id) ==
    LET found == \E i \in 1..Len(schedule_) :
                     Contains(schedule_[i].ids, task_id)
        first == CHOOSE i \in 1..Len(schedule_) :
                     /\ Contains(schedule_[i].ids, task_id)
                     /\ \A j \in 1..(i - 1) :
                            ~Contains(schedule_[j].ids, task_id)
    IN  [schedule |-> IF found
                      THEN UnscheduleLoop(schedule_,
                                          <<schedule_[first].time>>, task_id)
                      ELSE schedule_,
         ret |-> found]

\* lines 85-106
unschedule_task(schedule_, task_id) ==
    [schedule |-> UnscheduleLoop(schedule_, Keys(schedule_), task_id),
     ret |-> \E i \in 1..Len(schedule_) : Contains(schedule_[i].ids, task_id)]

\* the key of line 137: the time of day of a slot key, as minutes
TimeOfDay(time_slot) ==
    strptime(time_slot).hour * 60 + strptime(time_slot).minute

\* sorted(keys, key=...) by insertion of each key after the keys not greater
\* than it (sorted is stable)
RECURSIVE Sorted(_)
Sorted(keys) ==
    IF keys = <<>> THEN <<>>
    ELSE LET rest == Sorted(SubSeq(keys, 1, Len(keys) - 1))
             last == keys[Len(keys)]
             n == Cardinality({i \in 1..Len(rest) :
                                  TimeOfDay(rest[i]) <= TimeOfDay(last)})
         IN  SubSeq(rest, 1, n) \o <<last>> \o SubSeq(rest, n + 1, Len(rest))

\* lines 117 and 145: "!", "." and "o" stand for the three symbols
PrioritySymbol(priority) ==
    CASE priority = "high" -> "!"
      [] priority = "low" -> "o"
      [] OTHER -> "."

\* lines 141-147: one line per id of the slot for which a task is found
RECURSIVE SlotLines(_, _)
SlotLines(tasks_, ids) ==
    IF ids = <<>> THEN <<>>
    ELSE LET task_id == Head(ids)
             found == \E i \in 1..Len(tasks_) : tasks_[i].id = task_id
             task == tasks_[CHOOSE i \in 1..Len(tasks_) :
                               /\ tasks_[i].id = task_id
                               /\ \A j \in 1..(i - 1) :
                                      tasks_[j].id # task_id]
         IN  (IF found
              THEN <<[task_id |-> task_id, completed |-> task.completed,
                      symbol |-> PrioritySymbol(task.priority),
                      task |-> task.task]>>
              ELSE <<>>)
             \o SlotLines(tasks_, Tail(ids))

\* lines 131-148: what view_schedule prints
view_schedule(tasks_, schedule_) ==
    IF schedule_ = <<>> THEN <<>>
    ELSE LET sorted_times == Sorted(Keys(schedule_))
         IN  [i \in 1..Len(sorted_times) |->
                 [time |-> sorted_times[i],
                  lines |-> SlotLines(tasks_,
                                      Get(schedule_, sorted_times[i]))]]

(***************************************************************************)
(* json.dump and json.load on the values the store holds                   *)
(***************************************************************************)
\* the decimal literal of a non-negative int
RECURSIVE IntLiteral(_)
IntLiteral(n) ==
    IF n < 10 THEN <<Digits[n + 1]>>
    ELSE IntLiteral(n \div 10) \o <<Digits[(n % 10) + 1]>>

\* the int a decimal literal denotes
RECURSIVE ParseInt(_)
ParseInt(text) ==
    IF Len(text) = 1 THEN DigitVal(text[1])
    ELSE 10 * ParseInt(SubSeq(text, 1, Len(text) - 1))
             + DigitVal(text[Len(text)])

\* BoolLiteral that writes Python's spelling of the two values
BoolLiteral_mut(b) == IF b THEN <<"True">> ELSE <<"False">>

BoolLiteral(b) == IF b THEN <<"true">> ELSE <<"false">>

ParseBool(text) == text = <<"true">>

\* the literal of a str held as one value (description, priority, timestamp)
StrLiteral(text) == <<"\"", text, "\"">>

ParseStr(literal) == literal[2]

\* the literal of a str held as a sequence of characters (slot key)
KeyLiteral(chars) == <<"\"">> \o chars \o <<"\"">>

ParseKey(literal) == SubSeq(literal, 2, Len(literal) - 1)

\* the "tasks" array of the document
DumpTasks(tasks_) ==
    [i \in 1..Len(tasks_) |->
        [id |-> IntLiteral(tasks_[i].id),
         task |-> StrLiteral(tasks_[i].task),
         priority |-> StrLiteral(tasks_[i].priority),
         completed |-> BoolLiteral(tasks_[i].completed),
         created_at |-> StrLiteral(tasks_[i].created_at)]]

LoadTasks(array) ==
    [i \in 1..Len(array) |->
        [id |-> ParseInt(array[i].id),
         task |-> ParseStr(array[i].task),
         priority |-> ParseStr(array[i].priority),
         completed |-> ParseBool(array[i].completed),
         created_at |-> ParseStr(array[i].created_at)]]

\* the "schedule" object of the document
DumpSchedule(schedule_) ==
    [i \in 1..Len(schedule_) |->
        [time |-> KeyLiteral(schedule_[i].time),
         ids |-> [j \in 1..Len(schedule_[i].ids) |->
                     IntLiteral(schedule_[i].ids[j])]]]

LoadSchedule(object) ==
    [i \in 1..Len(object) |->
        [time |-> ParseKey(object[i].time),
         ids |-> [j \in 1..Len(object[i].ids) |->
                     ParseInt(object[i].ids[j])]]]

\* lines 152-157: the file save_data leaves
save_data(tasks_, schedule_) ==
    [kind |-> "object", has_tasks |-> TRUE, tasks |-> DumpTasks(tasks_),
     has_schedule |-> TRUE, schedule |-> DumpSchedule(schedule_)]

\* lines 162-172.  file_.kind is what the file holds: "missing" (no file),
\* "invalid" (text json.load rejects), "binary" (bytes that do not decode as
\* text), "array", "number", "string" or "null" (JSON whose top level is not
\* an object) or "object"; has_tasks and has_schedule tell whether the object
\* has the two keys.  An exception other than JSONDecodeError and
\* FileNotFoundError leaves load_data at line 165 or 166, before either
\* field is assigned.
load_data(tasks_, schedule_, file_) ==
    CASE file_.kind = "missing" ->
             [tasks |-> tasks_, schedule |-> schedule_, fault |-> "none"]
      [] file_.kind = "invalid" ->
             [tasks |-> <<>>, schedule |-> <<>>, fault |-> "none"]
      [] file_.kind = "binary" ->
             [tasks |-> tasks_, schedule |-> schedule_,
              fault |-> "UnicodeDecodeError"]
      [] file_.kind = "object" ->
             [tasks |-> IF file_.has_tasks THEN LoadTasks(file_.tasks)
                        ELSE <<>>,
              schedule |-> IF file_.has_schedule
                           THEN LoadSchedule(file_.schedule)
                           ELSE <<>>,
              fault |-> "none"]
      [] OTHER ->
             [tasks |-> tasks_, schedule |-> schedule_,
              fault |-> "AttributeError"]

(***************************************************************************)
(* The store driven through its methods                                    *)
(***************************************************************************)
NoFile == [kind |-> "missing", has_tasks |-> FALSE, tasks |-> <<>>,
           has_schedule |-> FALSE, schedule |-> <<>>]

\* the record of the latest call: its arguments (input is the text typed at
\* the priority prompt when the call came from the menu), the boolean it
\* returned (result) or the id it returned (new_id)
CallRecord(name, task_id, time_str, input, priority, result, new_id) ==
    [name |-> name, task_id |-> task_id, time_str |-> time_str,
     input |-> input, priority |-> priority, result |-> result,
     new_id |-> new_id]

NoCall == CallRecord("__init__", 0, None, "", "", TRUE, 0)

\* lines 6-10 with no persisted file: load_data leaves the empty store
Init ==
    /\ tasks = <<>>
    /\ schedule = <<>>
    /\ file = NoFile
    /\ fault = "none"
    /\ call = NoCall
    /\ pre = [tasks |-> <<>>, schedule |-> <<>>]
    /\ added = <<>>
    /\ ncalls = 0
    /\ shown = <<>>

Begin ==
    /\ ncalls < MaxCalls
    /\ fault = "none"
    /\ ncalls' = ncalls + 1
    /\ pre' = [tasks |-> tasks, schedule |-> schedule]
    /\ shown' = <<>>
    /\ UNCHANGED <<file, fault>>

\* texts typed at the priority prompt of the menu
PriorityPromptInputs == {"LOW", "urgent"}

\* texts typed at the time prompt of the menu
TimePromptInputs == {T0960}

RecognizedPriorities == {"high", "medium", "low"}

\* str.lower() on the texts of PriorityPromptInputs
Lower(text) == IF text = "LOW" THEN "low" ELSE text

\* lines 200-202 without the fallback of lines 201-202
NormalizePriority_mut(text) == Lower(text)

\* lines 200-202
NormalizePriority(text) ==
    IF Lower(text) \notin RecognizedPriorities THEN "medium" ELSE Lower(text)

\* lines 198-210: choice "1" of the menu of main()
MenuAdd ==
    \E task \in DescriptionInputs, text \in PriorityPromptInputs,
       schedule_now \in {"y", "n"}, time_str \in TimePromptInputs,
       now \in NowInputs :
        LET priority == NormalizePriority(text)
            a == add_task(tasks, schedule, task, priority, None, now)
            r == schedule_task(a.tasks, a.schedule, a.ret, time_str)
        IN  /\ Begin
            /\ tasks' = a.tasks
            /\ schedule' = IF schedule_now = "y" THEN r.schedule
                           ELSE a.schedule
            /\ added' = Append(added, a.ret)
            /\ call' = CallRecord("menu_add", 0,
                                  IF schedule_now = "y" THEN time_str
                                  ELSE None,
                                  text, priority,
                                  IF schedule_now = "y" THEN r.ret ELSE TRUE,
                                  a.ret)

AddTask ==
    \E task \in DescriptionInputs, priority \in PriorityInputs,
       scheduled_time \in ScheduledTimeInputs, now \in NowInputs :
        LET r == add_task(tasks, schedule, task, priority, scheduled_time, now)
        IN  /\ Begin
            /\ tasks' = r.tasks
            /\ schedule' = r.schedule
            /\ added' = Append(added, r.ret)
            /\ call' = CallRecord("add_task", 0, scheduled_time, priority,
                                  priority, TRUE, r.ret)

RemoveTask ==
    \E task_id \in TaskIdInputs :
        LET r == remove_task(tasks, schedule, task_id)
        IN  /\ Begin
            /\ tasks' = r.tasks
            /\ schedule' = r.schedule
            /\ call' = CallRecord("remove_task", task_id, None, "", "",
                                  r.ret, 0)
            /\ UNCHANGED added

MarkComplete ==
    \E task_id \in TaskIdInputs :
        LET r == mark_complete(tasks, task_id)
        IN  /\ Begin
            /\ tasks' = r.tasks
            /\ call' = CallRecord("mark_complete", task_id, None, "", "",
                                  r.ret, 0)
            /\ UNCHANGED <<schedule, added>>

ScheduleTask ==
    \E task_id \in TaskIdInputs, time_str \in ScheduleTimeInputs :
        LET r == schedule_task(tasks, schedule, task_id, time_str)
        IN  /\ Begin
            /\ schedule' = r.schedule
            /\ call' = CallRecord("schedule_task", task_id, time_str, "", "",
                                  r.ret, 0)
            /\ UNCHANGED <<tasks, added>>

UnscheduleTask ==
    \E task_id \in TaskIdInputs :
        LET r == unschedule_task(schedule, task_id)
        IN  /\ Begin
            /\ schedule' = r.schedule
            /\ call' = CallRecord("unschedule_task", task_id, None, "", "",
                                  r.ret, 0)
            /\ UNCHANGED <<tasks, added>>

\* lines 129-148 (choice "7" of the menu): prints, writes no field
ViewSchedule ==
    /\ fault = "none"
    /\ shown' = view_schedule(tasks, schedule)
    /\ call' = CallRecord("view_schedule", 0, None, "", "", TRUE, 0)
    /\ pre' = [tasks |-> tasks, schedule |-> schedule]
    /\ UNCHANGED <<tasks, schedule, file, fault, added, ncalls>>

\* lines 150-158
SaveData ==
    /\ ncalls < MaxCalls
    /\ fault = "none"
    /\ ncalls' = ncalls + 1
    /\ file' = save_data(tasks, schedule)
    /\ call' = CallRecord("save_data", 0, None, "", "", TRUE, 0)
    /\ pre' = [tasks |-> tasks, schedule |-> schedule]
    /\ shown' = <<>>
    /\ UNCHANGED <<tasks, schedule, fault, added>>

\* lines 191 and 6-10: the program is started again and builds a new store
\* over the file the earlier run left
Restart ==
    /\ ncalls < MaxCalls
    /\ fault = "none"
    /\ ncalls' = ncalls + 1
    /\ LET r == load_data(<<>>, <<>>, file)
       IN  /\ tasks' = r.tasks
           /\ schedule' = r.schedule
           /\ fault' = r.fault
           /\ call' = CallRecord("load_data", 0, None, "", "",
                                 r.fault = "none", 0)
    /\ pre' = [tasks |-> tasks, schedule |-> schedule]
    /\ shown' = <<>>
    /\ UNCHANGED <<file, added>>

\* the methods called directly, and the add choice of the menu, which does
\* more than call one method (choices "2" to "5" call remove_task,
\* mark_complete, schedule_task and unschedule_task with the typed values)
Next ==
    \/ AddTask
    \/ MenuAdd
    \/ RemoveTask
    \/ MarkComplete
    \/ ScheduleTask
    \/ UnscheduleTask
    \/ ViewSchedule
    \/ SaveData
    \/ Restart

Spec == Init /\ [][Next]_vars

(***************************************************************************)
(* Properties of the store                                                 *)
(***************************************************************************)
\* the ids of the tasks in a task list
TaskIds(tasks_) == {tasks_[i].id : i \in 1..Len(tasks_)}

\* the positions of the slots of a schedule that list task_id
SlotsOf(schedule_, task_id) ==
    {i \in 1..Len(schedule_) : Contains(schedule_[i].ids, task_id)}

\* C1: every task id listed in some slot of the schedule is the id of a task
\* that is in the task list.
ReferentialIntegrity ==
    \A i \in 1..Len(schedule) :
        \A j \in 1..Len(schedule[i].ids) : schedule[i].ids[j] \in TaskIds(tasks)

\* C2: no two tasks in the task list have the same id.
IdUniqueness ==
    \A i, j \in 1..Len(tasks) : i # j => tasks[i].id # tasks[j].id

\* C3: the ids returned by successive add_task calls are strictly increasing.
MonotonicIds ==
    \A i, j \in 1..Len(added) : i < j => added[i] < added[j]

\* C4: a task id is listed in at most one slot, and a successful
\* schedule_task for an id that was listed in a different slot takes the id
\* out of that slot.
SingleSlotPerTask ==
    /\ \A task_id \in 1..(MaxId + MaxCalls) :
           Cardinality(SlotsOf(schedule, task_id)) <= 1
    /\ (call.name = "schedule_task" /\ call.result) =>
           \A i \in SlotsOf(pre.schedule, call.task_id) :
               pre.schedule[i].time # strftime(strptime(call.time_str)) =>
                   \A j \in 1..Len(schedule) :
                       schedule[j].time = pre.schedule[i].time =>
                           ~Contains(schedule[j].ids, call.task_id)

\* a remove_task call that found a task which was listed in some slot
RemovedScheduledTask ==
    /\ call.name = "remove_task"
    /\ call.task_id \in TaskIds(pre.tasks)
    /\ SlotsOf(pre.schedule, call.task_id) # {}

\* C5: right after remove_task(id) of a task that was in the task list and
\* listed in one or more slots, no slot lists id and every slot that held
\* only id is gone.
RemovalCascade ==
    RemovedScheduledTask =>
        /\ call.result
        /\ SlotsOf(schedule, call.task_id) = {}
        /\ \A i \in 1..Len(pre.schedule) :
               pre.schedule[i].ids = <<call.task_id>> =>
                   ~HasKey(schedule, pre.schedule[i].time)

\* C5 witness: the removed task held one slot alone and shared another
RemovalCascadeWitness ==
    /\ RemovedScheduledTask
    /\ \E i, j \in 1..Len(pre.schedule) :
           /\ pre.schedule[i].ids = <<call.task_id>>
           /\ Len(pre.schedule[j].ids) = 2
           /\ Contains(pre.schedule[j].ids, call.task_id)
    /\ Len(schedule) = 1

\* C6: schedule_task with a time string that fails the parse (among them a
\* wrong separator, hour 24, minute 60 and letters) returns False and leaves
\* the task list and the schedule as they were.
InvalidTimeRejected ==
    /\ (/\ call.name = "schedule_task"
        /\ \/ call.time_str \in BadTimeInputs
           \/ ~strptime_ok(call.time_str)) =>
           /\ ~call.result
           /\ tasks = pre.tasks
           /\ schedule = pre.schedule
    /\ \A task_id \in TaskIdInputs, time_str \in BadTimeInputs :
           schedule_task(tasks, schedule, task_id, time_str)
               = [schedule |-> schedule, ret |-> FALSE]

\* C6 witness: an out-of-range hour offered to a store that holds a task and
\* a slot
InvalidTimeRejectedWitness ==
    /\ call.name = "schedule_task"
    /\ call.time_str = T2400
    /\ ~call.result
    /\ pre.tasks # <<>>
    /\ pre.schedule # <<>>

\* C9: every slot key of the schedule maps to a non-empty list of ids.
NoEmptySlots ==
    \A i \in 1..Len(schedule) : schedule[i].ids # <<>>

\* C9 witness: a call took the last id out of a slot and the slot is gone
NoEmptySlotsWitness ==
    /\ call.name \in {"unschedule_task", "remove_task"}
    /\ \E i \in 1..Len(pre.schedule) :
           /\ pre.schedule[i].ids = <<call.task_id>>
           /\ ~HasKey(schedule, pre.schedule[i].time)
    /\ schedule # <<>>

(***************************************************************************)
(* schedule_task on every short string over TimeAlphabet                   *)
(***************************************************************************)
\* length of the longest time string tried
MaxTimeLen == 5

TimeAlphabet == {"0", "2", "4", "5", "6", "9", ":", "a"}

TimeStrings == UNION {[1..n -> TimeAlphabet] : n \in 0..MaxTimeLen}

ParseInit ==
    /\ tasks = <<>>
    /\ schedule = <<>>
    /\ file = NoFile
    /\ fault = "none"
    /\ \E time_str \in TimeStrings :
           call = CallRecord("__init__", 0, time_str, "", "", TRUE, 0)
    /\ pre = [tasks |-> <<>>, schedule |-> <<>>]
    /\ added = <<>>
    /\ ncalls = 0
    /\ shown = <<>>

\* schedule_task(1, time_str) as the first call on the store
ParseStep ==
    /\ call.name = "__init__"
    /\ LET r == schedule_task(tasks, schedule, 1, call.time_str)
       IN  /\ Begin
           /\ schedule' = r.schedule
           /\ call' = CallRecord("schedule_task", 1, call.time_str, "", "",
                                 r.ret, 0)
           /\ UNCHANGED <<tasks, added>>

ParseNext == ParseStep

ParseSpec == ParseInit /\ [][ParseNext]_vars

\* the decimal numerals of n: two digits, and one digit when n is below ten
Numerals(n) ==
    {<<Digits[(n \div 10) + 1], Digits[(n % 10) + 1]>>}
        \cup (IF n < 10 THEN {<<Digits[n + 1]>>} ELSE {})

\* the slot key of hour h and minute m
SlotKey(h, m) ==
    <<Digits[(h \div 10) + 1], Digits[(h % 10) + 1], ":",
      Digits[(m \div 10) + 1], Digits[(m % 10) + 1]>>

\* the strings that write hour h and minute m, each paired with the slot key
FormsOf(h, m) ==
    {<<a \o <<":">> \o b, SlotKey(h, m)>> :
        a \in Numerals(h), b \in Numerals(m)}

\* every string made of an hour 0..23, a colon and a minute 0..59, paired
\* with its slot key
KeyOfForm == UNION {FormsOf(h, m) : h \in 0..23, m \in 0..59}

AcceptedForms == {p[1] : p \in KeyOfForm}

\* C7 as stated: schedule_task succeeds only on a zero-padded two-digit hour,
\* a colon and a zero-padded two-digit minute within 00:00..23:59; "9:5"
\* returns False and creates no slot; "09:05" succeeds and is stored under the
\* slot key "09:05".
StrictTwoDigitFormat ==
    call.name = "schedule_task" =>
        /\ call.result =>
               \E h \in 0..23, m \in 0..59 : call.time_str = SlotKey(h, m)
        /\ call.time_str = T95 => ~call.result /\ schedule = pre.schedule
        /\ call.time_str = T0905 =>
               /\ call.result
               /\ HasKey(schedule, T0905)
               /\ Contains(Get(schedule, T0905), call.task_id)

\* C7 amended: schedule_task succeeds exactly on the strings made of an hour
\* 0..23 written with one or two digits, a colon and a minute 0..59 written
\* with one or two digits; on success the id is listed under the zero-padded
\* slot key of that hour and minute, so "9:5" and "09:05" both succeed and
\* are stored under "09:05"; on failure no slot is created.
LenientTimeFormat ==
    call.name = "schedule_task" =>
        /\ call.result <=> call.time_str \in AcceptedForms
        /\ call.result =>
               \A p \in KeyOfForm :
                   p[1] = call.time_str =>
                       /\ HasKey(schedule, p[2])
                       /\ Contains(Get(schedule, p[2]), call.task_id)
                       /\ Len(schedule) = Len(pre.schedule)
                              + (IF HasKey(pre.schedule, p[2]) THEN 0 ELSE 1)
        /\ call.time_str \in {T95, T0905} =>
               /\ call.result
               /\ HasKey(schedule, T0905)
               /\ Contains(Get(schedule, T0905), call.task_id)
        /\ ~call.result => schedule = pre.schedule

\* C7 witness: "9:5" was accepted and stored under "09:05"
LenientTimeFormatWitness ==
    /\ call.name = "schedule_task"
    /\ call.time_str = T95
    /\ call.result
    /\ schedule = <<[time |-> T0905, ids |-> <<call.task_id>>]>>

(***************************************************************************)
(* Construction of a store over a persisted file                           *)
(***************************************************************************)
\* task lists and schedules found under the keys of a persisted object
FileTasks ==
    {DumpTasks(<<>>)} \cup
    {DumpTasks(<<[id |-> 1, task |-> task, priority |-> priority,
                  completed |-> completed, created_at |-> now]>>) :
        task \in DescriptionInputs, priority \in PriorityInputs,
        completed \in BOOLEAN, now \in NowInputs}

FileSchedules ==
    {DumpSchedule(<<>>)} \cup
    {DumpSchedule(<<[time |-> time, ids |-> ids]>>) :
        time \in {T0905, T2359}, ids \in {<<>>, <<1>>, <<1, 2>>}}

FileInputs ==
    {[kind |-> kind, has_tasks |-> FALSE, tasks |-> <<>>,
      has_schedule |-> FALSE, schedule |-> <<>>] :
        kind \in {"missing", "invalid", "binary", "array", "number",
                  "string", "null"}}
    \cup
    {[kind |-> "object", has_tasks |-> has_tasks,
      tasks |-> IF has_tasks THEN file_tasks ELSE <<>>,
      has_schedule |-> has_schedule,
      schedule |-> IF has_schedule THEN file_schedule ELSE <<>>] :
        has_tasks \in BOOLEAN, file_tasks \in FileTasks,
        has_schedule \in BOOLEAN, file_schedule \in FileSchedules}

\* lines 7-9: the fields before load_data runs
LoadInit ==
    /\ tasks = <<>>
    /\ schedule = <<>>
    /\ file \in FileInputs
    /\ fault = "none"
    /\ call = CallRecord("__new__", 0, None, "", "", TRUE, 0)
    /\ pre = [tasks |-> <<>>, schedule |-> <<>>]
    /\ added = <<>>
    /\ ncalls = 0
    /\ shown = <<>>

\* line 10
LoadData ==
    /\ call.name = "__new__"
    /\ LET r == load_data(tasks, schedule, file)
       IN  /\ tasks' = r.tasks
           /\ schedule' = r.schedule
           /\ fault' = r.fault
           /\ call' = CallRecord("load_data", 0, None, "", "",
                                 r.fault = "none", 0)
    /\ pre' = [tasks |-> tasks, schedule |-> schedule]
    /\ ncalls' = ncalls + 1
    /\ UNCHANGED <<file, added, shown>>

LoadNext == LoadData

LoadSpec == LoadInit /\ [][LoadNext]_vars

\* the file is missing, is not JSON, or is JSON without the expected shape
\* (top level not an object, or an object without both keys)
UnusableFile ==
    \/ file.kind # "object"
    \/ ~(file.has_tasks /\ file.has_schedule)

\* C10: on a missing file, a file that is not JSON and a file that is JSON
\* of another shape, load_data raises nothing and leaves an empty task list
\* and an empty schedule.
LoadNeverFaults ==
    (call.name = "load_data" /\ UnusableFile) =>
        /\ fault = "none"
        /\ tasks = <<>>
        /\ schedule = <<>>

\* C8 as stated: add_task stores a priority among high, medium and low
\* whatever its priority argument is, an unrecognized argument as medium, so
\* every task has such a priority.
PriorityNormalizedByCore ==
    /\ \A i \in 1..Len(tasks) : tasks[i].priority \in RecognizedPriorities
    /\ (call.name = "add_task"
            /\ call.priority \notin RecognizedPriorities) =>
           tasks[Len(tasks)].priority = "medium"

\* C8 amended: add_task stores its priority argument as it is, recognized or
\* not; it is the add choice of the menu that lower-cases the typed priority
\* and replaces anything other than high, medium and low by medium before it
\* calls add_task, so a task added through the menu is stored with a
\* priority among high, medium and low.
PriorityNormalizedByMenu ==
    /\ call.name \in {"add_task", "menu_add"} =>
           tasks[Len(tasks)].priority = call.priority
    /\ call.name = "menu_add" =>
           /\ tasks[Len(tasks)].priority \in RecognizedPriorities
           /\ call.priority = IF Lower(call.input) \in RecognizedPriorities
                              THEN Lower(call.input)
                              ELSE "medium"

\* C8 witness: "urgent" typed at the menu was stored as medium, next to a
\* task that add_task was given "urgent" for
PriorityNormalizedWitness ==
    /\ call.name = "menu_add"
    /\ call.input = "urgent"
    /\ tasks[Len(tasks)].priority = "medium"
    /\ \E i \in 1..Len(tasks) : tasks[i].priority = "urgent"

(***************************************************************************)
(* Properties of single calls                                              *)
(***************************************************************************)
\* the first task of a list that has the given id
FirstWithId(tasks_, task_id) ==
    tasks_[CHOOSE i \in 1..Len(tasks_) :
               /\ tasks_[i].id = task_id
               /\ \A j \in 1..(i - 1) : tasks_[j].id # task_id]

\* C11: mark_complete(id) for an id of a task in the store returns True and
\* leaves that task completed, and a second mark_complete(id) right after it
\* again returns True and changes neither the tasks nor the schedule.
MarkCompleteIdempotent ==
    (call.name = "mark_complete" /\ call.task_id \in TaskIds(pre.tasks)) =>
        /\ call.result
        /\ FirstWithId(tasks, call.task_id).completed
        /\ schedule = pre.schedule
        /\ mark_complete(tasks, call.task_id).ret
        /\ mark_complete(tasks, call.task_id).tasks = tasks
        /\ FirstWithId(pre.tasks, call.task_id).completed => tasks = pre.tasks

\* C11 witness: a second mark_complete on a task that the first one completed
MarkCompleteIdempotentWitness ==
    /\ call.name = "mark_complete"
    /\ call.result
    /\ call.task_id \in TaskIds(pre.tasks)
    /\ FirstWithId(pre.tasks, call.task_id).completed
    /\ tasks = pre.tasks
    /\ schedule # <<>>

\* a schedule without task_id: the id taken out of every slot, emptied slots
\* dropped, everything else in place
Without(schedule_, task_id) ==
    LET Other(x) == x # task_id
        Kept(slot) == slot.ids # <<>>
    IN  SelectSeq([i \in 1..Len(schedule_) |->
                      [time |-> schedule_[i].time,
                       ids |-> SelectSeq(schedule_[i].ids, Other)]],
                  Kept)

\* C12: unschedule_task(id) takes id out of every slot that lists it and
\* deletes the slots left empty, keeps the other ids in their slots and
\* order, leaves the task list alone and returns True exactly when id was
\* listed in some slot; when it returns False nothing has changed.
UnscheduleRemovesEverywhere ==
    call.name = "unschedule_task" =>
        /\ schedule = Without(pre.schedule, call.task_id)
        /\ tasks = pre.tasks
        /\ call.result <=> SlotsOf(pre.schedule, call.task_id) # {}
        /\ ~call.result => schedule = pre.schedule

\* C12 witness: the id was listed in two slots, alone in one of them
UnscheduleRemovesEverywhereWitness ==
    /\ call.name = "unschedule_task"
    /\ call.result
    /\ Cardinality(SlotsOf(pre.schedule, call.task_id)) = 2
    /\ \E i \in 1..Len(pre.schedule) : pre.schedule[i].ids = <<call.task_id>>
    /\ Len(schedule) = 1

\* a schedule_task call with a valid time for an id that the slot of that
\* time already lists
DuplicateScheduling ==
    /\ call.name = "schedule_task"
    /\ strptime_ok(call.time_str)
    /\ HasKey(pre.schedule, strftime(strptime(call.time_str)))
    /\ Contains(Get(pre.schedule, strftime(strptime(call.time_str))),
                call.task_id)

\* C13: schedule_task(id, t) for an id already listed in the slot of the
\* valid time t returns True and changes nothing, and no slot lists the same
\* id twice.
DuplicateSchedulingNoOp ==
    /\ DuplicateScheduling =>
           /\ call.result
           /\ schedule = pre.schedule
           /\ tasks = pre.tasks
    /\ \A i \in 1..Len(schedule) :
           \A j, k \in 1..Len(schedule[i].ids) :
               j # k => schedule[i].ids[j] # schedule[i].ids[k]

\* C13 witness: "9:5" offered for an id that slot "09:05" already lists
DuplicateSchedulingWitness ==
    /\ DuplicateScheduling
    /\ call.time_str = T95
    /\ call.result
    /\ Len(Get(schedule, T0905)) = 2

\* C14: remove_task(id) returns True exactly when the task list held a task
\* with that id; when it returns False nothing is raised and the task list
\* and the schedule are as before.
RemoveReportsPresence ==
    call.name = "remove_task" =>
        /\ call.result <=> call.task_id \in TaskIds(pre.tasks)
        /\ ~call.result =>
               /\ fault = "none"
               /\ tasks = pre.tasks
               /\ schedule = pre.schedule

\* C14 witness: the id was not in the non-empty task list and a slot lists it
RemoveReportsPresenceWitness ==
    /\ call.name = "remove_task"
    /\ ~call.result
    /\ pre.tasks # <<>>
    /\ SlotsOf(schedule, call.task_id) # {}

\* an add_task call without a scheduled time, from the menu or directly
AddedWithoutTime ==
    /\ call.name \in {"add_task", "menu_add"}
    /\ call.time_str = None

\* C17: right after add_task without a scheduled time the returned id is
\* listed in no slot.
NewTaskUnscheduled ==
    AddedWithoutTime => SlotsOf(schedule, call.new_id) = {}

\* C19: add_task with a scheduled time that fails the parse appends the task
\* and returns its id all the same and leaves the schedule as it was; with a
\* scheduled time that parses, the returned id is listed in the zero-padded
\* slot of that time.
AddTaskWithTime ==
    (call.name = "add_task" /\ call.time_str # None) =>
        /\ call.new_id = Len(pre.tasks) + 1
        /\ Len(tasks) = Len(pre.tasks) + 1
        /\ SubSeq(tasks, 1, Len(pre.tasks)) = pre.tasks
        /\ tasks[Len(tasks)].id = call.new_id
        /\ ~tasks[Len(tasks)].completed
        /\ call.time_str = T0960 => schedule = pre.schedule
        /\ call.time_str = T95 =>
               /\ HasKey(schedule, T0905)
               /\ Contains(Get(schedule, T0905), call.new_id)
               /\ Without(schedule, call.new_id)
                      = Without(pre.schedule, call.new_id)

\* C19 witness: a minute of 60 given to add_task on a store with a slot
AddTaskWithTimeWitness ==
    /\ call.name = "add_task"
    /\ call.time_str = T0960
    /\ Len(tasks) = Len(pre.tasks) + 1
    /\ schedule # <<>>
    /\ schedule = pre.schedule

(***************************************************************************)
(* The task list driven by add_task, remove_task and mark_complete alone,  *)
(* over longer runs                                                        *)
(***************************************************************************)
\* number of operations invoked on the task list
MaxStoreCalls == 5

StoreBegin ==
    /\ ncalls < MaxStoreCalls
    /\ fault = "none"
    /\ ncalls' = ncalls + 1
    /\ pre' = [tasks |-> tasks, schedule |-> schedule]
    /\ shown' = <<>>
    /\ UNCHANGED <<file, fault>>

\* add_task(task, priority)
StoreAdd ==
    \E task \in DescriptionInputs, priority \in PriorityInputs,
       now \in NowInputs :
        LET r == add_task(tasks, schedule, task, priority, None, now)
        IN  /\ StoreBegin
            /\ tasks' = r.tasks
            /\ schedule' = r.schedule
            /\ added' = Append(added, r.ret)
            /\ call' = CallRecord("add_task", 0, None, priority, priority,
                                  TRUE, r.ret)

\* remove_task(task_id)
StoreRemove ==
    \E task_id \in TaskIdInputs :
        LET r == remove_task(tasks, schedule, task_id)
        IN  /\ StoreBegin
            /\ tasks' = r.tasks
            /\ schedule' = r.schedule
            /\ call' = CallRecord("remove_task", task_id, None, "", "",
                                  r.ret, 0)
            /\ UNCHANGED added

\* mark_complete(task_id)
StoreComplete ==
    \E task_id \in TaskIdInputs :
        LET r == mark_complete(tasks, task_id)
        IN  /\ StoreBegin
            /\ tasks' = r.tasks
            /\ call' = CallRecord("mark_complete", task_id, None, "", "",
                                  r.ret, 0)
            /\ UNCHANGED <<schedule, added>>

StoreNext ==
    \/ StoreAdd
    \/ StoreRemove
    \/ StoreComplete

StoreSpec == Init /\ [][StoreNext]_vars

\* C18: a remove_task(id) that returns True takes exactly one task out of the
\* task list, after it no task has that id, and the other tasks are kept
\* unchanged in the same order.
RemoveExactlyOne ==
    (call.name = "remove_task" /\ call.result) =>
        /\ \E i \in 1..Len(pre.tasks) :
               /\ pre.tasks[i].id = call.task_id
               /\ tasks = ListPop(pre.tasks, i)
        /\ call.task_id \notin TaskIds(tasks)

(***************************************************************************)
(* Properties of view_schedule                                             *)
(***************************************************************************)
\* minutes since midnight of a slot key HH:MM
MinuteOfDay(key) ==
    (10 * DigitVal(key[1]) + DigitVal(key[2])) * 60
        + 10 * DigitVal(key[4]) + DigitVal(key[5])

\* C16: view_schedule shows every slot exactly once, in ascending order of
\* time of day, and under each slot every id the slot holds, in the order of
\* the slot's list.
ViewScheduleComplete ==
    call.name = "view_schedule" =>
        /\ Len(shown) = Len(schedule)
        /\ \A i \in 1..Len(schedule) :
               \E j \in 1..Len(shown) : shown[j].time = schedule[i].time
        /\ \A j, k \in 1..Len(shown) :
               j < k => MinuteOfDay(shown[j].time) < MinuteOfDay(shown[k].time)
        /\ \A j \in 1..Len(shown) :
               [n \in 1..Len(shown[j].lines) |-> shown[j].lines[n].task_id]
                   = Get(schedule, shown[j].time)

(***************************************************************************)
(* Properties of save_data and load_data                                   *)
(***************************************************************************)
\* C15: in every reachable state, save_data followed by load_data into a new
\* store gives the same task list and the same schedule, order included; so a
\* store started over the file of the state it replaces equals that state.
PersistenceRoundTrip ==
    /\ LET r == load_data(<<>>, <<>>, save_data(tasks, schedule))
       IN  /\ r.fault = "none"
           /\ r.tasks = tasks
           /\ r.schedule = schedule
    /\ (call.name = "load_data"
            /\ file = save_data(pre.tasks, pre.schedule)) =>
           /\ fault = "none"
           /\ tasks = pre.tasks
           /\ schedule = pre.schedule

\* C15 witness: a store with a completed task and a slot was saved and
\* loaded again
PersistenceRoundTripWitness ==
    /\ call.name = "load_data"
    /\ file = save_data(pre.tasks, pre.schedule)
    /\ \E i \in 1..Len(tasks) : tasks[i].completed
    /\ Len(schedule) = 1
    /\ tasks = pre.tasks

====
